---- MODULE Spec2Model ----
(***************************************************************************)
(* Model of runner/driver/docker-driver/docker-info.c: the resolution of   *)
(* one `struct docker_info` from the global settings object and one entry  *)
(* of its `task_option` array, and the hsearch(3) table of cgroup ids.     *)
(* C strings are sequences of one-character strings; a JSON object is a    *)
(* function from the keys it has to their values.                          *)
(***************************************************************************)
EXTENDS Integers, Sequences, FiniteSets, TLC

VARIABLES setting, fs, heap, registry, returned, result, err, ret, index,
          probes, pc, tinfo

vars == <<setting, fs, heap, registry, returned, result, err, ret, index,
          probes, pc, tinfo>>

\* ------------------------------------------------------------------ bounds
MaxTasks == 2          \* longest task_option array of the configurations
MaxAddr == 3           \* descriptors the allocator can hold at once
PathSize == 16         \* sizeof(info->trace_replay_path), sizeof(info->trace_data_path)
NameSize == 8          \* sizeof of the other string members

\* --------------------------------------------------------------- constants
NULL == 0
EINVAL == 22
ENOMEM == 12
DOCKER_SYNTH == 1
DOCKER_NOT_SYNTH == 0
Pid == 4242
Int32Max == 2147483647

Threads == {1, 2}
Addrs == 1..MaxAddr

\* ----------------------------------------------------------------- strings
Quote == "\""
UsrBin == <<"/", "u", "s", "r", "/", "b", "i", "n", "/">>

Take(s, n) == IF Len(s) <= n THEN s ELSE SubSeq(s, 1, n)

\* generic_strip_string(member, '"'): drops a leading and a trailing quote.
generic_strip_string(s, ch) ==
    LET a == IF Len(s) > 0 /\ s[1] = ch THEN SubSeq(s, 2, Len(s)) ELSE s
    IN  IF Len(a) > 0 /\ a[Len(a)] = ch THEN SubSeq(a, 1, Len(a) - 1) ELSE a

\* snprintf(member, size, "%s", ...): at most size - 1 characters are kept.
snprintf(size, s) == Take(s, size - 1)

\* sizeof(info->member) of the string members.
SizeOf(member) ==
    IF member \in {"trace_replay_path", "trace_data_path"} THEN PathSize
    ELSE NameSize

\* json_object_get_int of an integer value saturates to the int range; the
\* configurations hold values of 0..Int32Max, which the unsigned int
\* member stores as they are.
json_object_get_int(v) ==
    IF v > Int32Max THEN Int32Max
    ELSE IF v < -Int32Max - 1 THEN -Int32Max - 1 ELSE v

\* json_object_object_get_ex(obj, key, &tmp)
json_object_object_get_ex(obj, key) == key \in DOMAIN obj

\* The NULL json_object pointer.
NullObject == [nullptr |-> TRUE]

\* json_object_array_get_idx(arr, idx): NULL outside the array (idx from 0).
json_object_array_get_idx(arr, idx) ==
    IF idx >= 0 /\ idx < Len(arr) THEN arr[idx + 1] ELSE NullObject

\* docker_info_int_value_set: -EINVAL and member untouched when the key is
\* absent, else the member is overwritten.
docker_info_int_value_set(obj, key, info, member) ==
    IF ~json_object_object_get_ex(obj, key)
    THEN [ret |-> -EINVAL, info |-> info]
    ELSE [ret |-> 0,
          info |-> [info EXCEPT ![member] =
                       json_object_get_int(obj[key])]]

\* docker_info_str_value_set: as above, through snprintf and the strip.
docker_info_str_value_set(obj, key, info, member) ==
    IF ~json_object_object_get_ex(obj, key)
    THEN [ret |-> -EINVAL, info |-> info]
    ELSE [ret |-> 0,
          info |-> [info EXCEPT ![member] =
                       generic_strip_string(
                           snprintf(SizeOf(member), obj[key]), Quote)]]

\* ------------------------------------------------------------- synthetic
global_synth_type ==
    << <<"r", "a", "n", "d", "_", "r", "e", "a", "d">>,
       <<"r", "a", "n", "d", "_", "w", "r", "i", "t", "e">>,
       <<"r", "a", "n", "d", "_", "m", "i", "x", "e", "d">>,
       <<"s", "e", "q", "_", "r", "e", "a", "d">>,
       <<"s", "e", "q", "_", "w", "r", "i", "t", "e">>,
       <<"s", "e", "q", "_", "m", "i", "x", "e", "d">> >>

\* A classifier that forgets the seq_* half of the table.
docker_is_synth_type_rand_only(trace_data_path) ==
    IF \E i \in 1..3 : trace_data_path = global_synth_type[i]
    THEN DOCKER_SYNTH ELSE DOCKER_NOT_SYNTH

docker_is_synth_type(trace_data_path) ==
    IF \E i \in 1..Len(global_synth_type) :
           trace_data_path = global_synth_type[i]
    THEN DOCKER_SYNTH ELSE DOCKER_NOT_SYNTH

\* ------------------------------------------------------------- scheduler
SchedNone == <<"n", "o", "n", "e">>
SchedKyber == <<"k", "y", "b", "e", "r">>
SchedBfq == <<"b", "f", "q">>
SchedulerNames == <<SchedNone, SchedKyber, SchedBfq>>

\* docker_valid_scheduler_test(name): the index of a supported name
\* (from 0), negative for any other name.
docker_valid_scheduler_test(name) ==
    IF \E i \in 1..Len(SchedulerNames) : SchedulerNames[i] = name
    THEN (CHOOSE i \in 1..Len(SchedulerNames) : SchedulerNames[i] = name) - 1
    ELSE -EINVAL

\* docker_has_weight_scheduler(index): the weight-aware kind.
docker_has_weight_scheduler(i) == i = 2

\* ------------------------------------------------------------ filesystem
\* lstat(path, &lstat_info): 0 when the path exists, -1 otherwise.
lstat(fsys, path) == IF path \in fsys THEN 0 ELSE -1

\* -------------------------------------------------------------- hsearch
\* hsearch(item, FIND): the entry whose key compares equal (named here by
\* its data pointer), or NULL.
hsearch_FIND_blind(reg, key) == NULL

hsearch_FIND(reg, key) ==
    IF \E e \in reg : e.key = key
    THEN (CHOOSE e \in reg : e.key = key).data
    ELSE NULL

\* hsearch(item, ENTER): inserts unless the key is already in the table.
hsearch_ENTER(reg, key, data) ==
    IF \E e \in reg : e.key = key THEN reg
    ELSE reg \cup {[key |-> key, data |-> data]}

\* ------------------------------------------------------------ descriptor
\* memset(info, 0, sizeof(struct docker_info))
ZeroInfo ==
    [ppid |-> 0, time |-> 0, q_depth |-> 0, nr_thread |-> 0, weight |-> 0,
     trace_repeat |-> 0, wss |-> 0, utilization |-> 0, iosize |-> 0,
     prefix_cgroup_name |-> <<>>, scheduler |-> <<>>,
     trace_replay_path |-> <<>>, device |-> <<>>, trace_data_path |-> <<>>,
     cgroup_id |-> <<>>, mqid |-> 0, semid |-> 0, shmid |-> 0, next |-> NULL]

\* ret |= r for results that are 0 or -EINVAL.
OrRet(a, b) == IF a = 0 THEN b ELSE a

\* One loud read of the global object: acc is [ret, info] so far.
LoudInt(acc, obj, key) ==
    [ret |-> OrRet(acc.ret,
                   docker_info_int_value_set(obj, key, acc.info, key).ret),
     info |-> docker_info_int_value_set(obj, key, acc.info, key).info]

LoudStr(acc, obj, key) ==
    [ret |-> OrRet(acc.ret,
                   docker_info_str_value_set(obj, key, acc.info, key).ret),
     info |-> docker_info_str_value_set(obj, key, acc.info, key).info]

\* One silent read: the result is dropped, the member keeps its value when
\* the key is absent.
SilentInt(info, obj, key, member) ==
    docker_info_int_value_set(obj, key, info, member).info

SilentStr(info, obj, key) ==
    docker_info_str_value_set(obj, key, info, key).info

\* The seven loud reads of the global object: ret is the OR of the results.
GlobalRequired(obj, info) ==
    LoudStr(LoudStr(LoudStr(LoudStr(LoudInt(LoudInt(LoudInt(
        [ret |-> 0, info |-> info],
        obj, "time"), obj, "q_depth"), obj, "nr_thread"),
        obj, "prefix_cgroup_name"), obj, "scheduler"), obj, "device"),
        obj, "trace_replay_path")

\* The silent reads of the global object; trace_repeat lands in weight.
GlobalOptional(obj, info) ==
    SilentStr(SilentInt(SilentInt(SilentInt(SilentInt(SilentInt(
        info,
        obj, "weight", "weight"), obj, "trace_repeat", "weight"),
        obj, "wss", "wss"), obj, "utilization", "utilization"),
        obj, "iosize", "iosize"), obj, "trace_data_path")

\* The silent reads of the task entry; trace_repeat lands in weight.
TaskOptional(tmp, info) ==
    SilentStr(SilentStr(SilentStr(SilentStr(
    SilentInt(SilentInt(SilentInt(SilentInt(
    SilentInt(SilentInt(SilentInt(SilentInt(
        info,
        tmp, "time", "time"), tmp, "q_depth", "q_depth"),
        tmp, "nr_thread", "nr_thread"), tmp, "weight", "weight"),
        tmp, "trace_repeat", "weight"), tmp, "wss", "wss"),
        tmp, "utilization", "utilization"), tmp, "iosize", "iosize"),
        tmp, "prefix_cgroup_name"), tmp, "scheduler"),
        tmp, "trace_replay_path"), tmp, "device")

\* goto exception with the error at hand; the label names the place.
Failure(e, r, info, ps) ==
    [err |-> e, ret |-> r, info |-> info, probes |-> ps]

\* The classification of trace_data_path, the lstat of a file path, and
\* info->ppid = getpid().
CheckTraceSource(info, fsys) ==
    IF DOCKER_SYNTH # docker_is_synth_type(info.trace_data_path)
    THEN IF -1 = lstat(fsys, info.trace_data_path)
         THEN Failure("TraceSourceNotFound", -1, info,
                      <<info.trace_data_path>>)
         ELSE [err |-> "None", ret |-> 0,
               info |-> [info EXCEPT !.ppid = Pid],
               probes |-> <<info.trace_data_path>>]
    ELSE [err |-> "None", ret |-> 0,
          info |-> [info EXCEPT !.ppid = Pid], probes |-> <<>>]

\* The loud read of cgroup_id from the task entry.
RequireCgroupId(tmp, info, fsys) ==
    IF docker_info_str_value_set(tmp, "cgroup_id", info, "cgroup_id").ret # 0
    THEN Failure("MissingField", -EINVAL, info, <<>>)
    ELSE CheckTraceSource(SilentStr(info, tmp, "cgroup_id"), fsys)

\* The loud read of trace_data_path from the task entry.
RequireTraceDataPath(tmp, info, fsys) ==
    IF docker_info_str_value_set(tmp, "trace_data_path", info,
                                 "trace_data_path").ret # 0
    THEN Failure("MissingField", -EINVAL, info, <<>>)
    ELSE RequireCgroupId(tmp, SilentStr(info, tmp, "trace_data_path"), fsys)

\* The second read of weight from the task entry, loud (print_flag is
\* DOCKER_ERROR_PRINT) when the scheduler is weight-aware.
RequireWeight(tmp, info, loud, fsys) ==
    IF loud /\ docker_info_int_value_set(tmp, "weight", info, "weight").ret # 0
    THEN Failure("MissingWeight", -EINVAL, info, <<>>)
    ELSE RequireTraceDataPath(tmp, SilentInt(info, tmp, "weight", "weight"),
                              fsys)

\* The scheduler test on the effective scheduler name.
CheckTaskScheduler(tmp, info, fsys) ==
    IF 0 > docker_valid_scheduler_test(info.scheduler)
    THEN Failure("UnsupportedScheduler",
                 docker_valid_scheduler_test(info.scheduler), info, <<>>)
    ELSE RequireWeight(tmp, info,
             docker_has_weight_scheduler(
                 docker_valid_scheduler_test(info.scheduler)),
             fsys)

\* __docker_info_init up to getpid(): the task entry's overrides and the
\* checks on the effective values.
TaskTier(obj, idx, info, fsys) ==
    IF ~json_object_object_get_ex(obj, "task_option")
    THEN Failure("MissingField", -EINVAL, info, <<>>)
    ELSE IF json_object_array_get_idx(obj["task_option"], idx) = NullObject
    THEN Failure("IndexOutOfRange", -EINVAL, info, <<>>)
    ELSE CheckTaskScheduler(
             json_object_array_get_idx(obj["task_option"], idx),
             TaskOptional(
                 json_object_array_get_idx(obj["task_option"], idx), info),
             fsys)

\* sprintf(info->trace_replay_path, "/usr/bin/%s", buffer) writes past the
\* member when the rewritten path and its terminator do not fit.
Overflows(info, fsys) ==
    /\ -1 = lstat(fsys, info.trace_replay_path)
    /\ Len(UsrBin \o info.trace_replay_path) >= SizeOf("trace_replay_path")

\* The redirect of a path that does not exist as given.
Redirect(info, fsys) ==
    IF -1 = lstat(fsys, info.trace_replay_path)
    THEN [info EXCEPT !.trace_replay_path = UsrBin \o @]
    ELSE info

\* The second lstat, the scheduler test and the silent reads of the global
\* object; ps holds the two paths given to lstat.
CheckExecutable(obj, info, fsys, ps) ==
    IF -1 = lstat(fsys, info.trace_replay_path)
    THEN Failure("ExecutableNotFound", 0, info, ps)
    ELSE IF 0 > docker_valid_scheduler_test(info.scheduler)
    THEN Failure("UnsupportedScheduler",
                 docker_valid_scheduler_test(info.scheduler), info, ps)
    ELSE [err |-> "None", ret |-> 0, info |-> GlobalOptional(obj, info),
          probes |-> ps]

\* The first lstat and the redirect.  ovf is what the out-of-bounds sprintf
\* does: "abort" (the write is caught, or corrupts the allocator) or
\* "spill" (the bytes land after the member and the string reads back
\* whole).
ResolveExecutable(obj, g, fsys, ovf) ==
    IF 0 # g.ret
    THEN Failure("MissingField", g.ret, g.info, <<>>)
    ELSE IF Overflows(g.info, fsys) /\ ovf = "abort"
    THEN Failure("Abort", 0, g.info, <<g.info.trace_replay_path>>)
    ELSE CheckExecutable(obj, Redirect(g.info, fsys), fsys,
             <<g.info.trace_replay_path,
               Redirect(g.info, fsys).trace_replay_path>>)

\* docker_info_init from the memset to the call of __docker_info_init.
GlobalTier(obj, fsys, ovf) ==
    ResolveExecutable(obj,
        GlobalRequired(obj, [ZeroInfo EXCEPT !.trace_repeat = 1]), fsys, ovf)

\* The call of __docker_info_init after a global tier that ended as g.
EnterTaskTier(g, obj, idx, fsys) ==
    IF g.err # "None" THEN g
    ELSE [TaskTier(obj, idx, g.info, fsys) EXCEPT !.probes = g.probes \o @]

\* Everything a call does before it consults the table of cgroup ids.
BeforeRegister(obj, idx, fsys, ovf) ==
    EnterTaskTier(GlobalTier(obj, fsys, ovf), obj, idx, fsys)

\* A registration that enters the id before it looks for a duplicate.
Register_enter_first(reg, info, addr) ==
    [err |-> IF NULL # hsearch_FIND(reg, info.cgroup_id)
             THEN "DuplicateCgroupId" ELSE "None",
     ret |-> IF NULL # hsearch_FIND(reg, info.cgroup_id) THEN -EINVAL ELSE 0,
     reg |-> reg \cup {[key |-> info.cgroup_id, data |-> addr]}]

\* The tail of __docker_info_init: FIND, then ENTER with data = info.
Register(reg, info, addr) ==
    IF NULL # hsearch_FIND(reg, info.cgroup_id)
    THEN [err |-> "DuplicateCgroupId", ret |-> -EINVAL, reg |-> reg]
    ELSE [err |-> "None", ret |-> 0,
          reg |-> hsearch_ENTER(reg, info.cgroup_id, addr)]

\* A return path that leaves the slots as memset left them.
Finish_skip(info) == info

\* info->mqid = info->semid = info->shmid = -1; info->next = NULL;
Finish(info) ==
    [info EXCEPT !.mqid = -1, !.semid = -1, !.shmid = -1, !.next = NULL]

\* The return of docker_info_init after a registration that ended as r.
Return(b, r) ==
    [err |-> r.err, ret |-> r.ret,
     info |-> IF r.err = "None" THEN Finish(b.info) ELSE b.info,
     reg |-> r.reg, probes |-> b.probes]

\* The registration after the checks ended as b.
AfterChecks(b, reg, addr) ==
    IF b.err # "None"
    THEN [err |-> b.err, ret |-> b.ret, info |-> b.info, reg |-> reg,
          probes |-> b.probes]
    ELSE Return(b, Register(reg, b.info, addr))

\* docker_info_init(setting, index) with info = addr the result of malloc.
docker_info_init(obj, idx, addr, ovf, reg, fsys) ==
    IF addr = NULL
    THEN [err |-> "AllocationFailure", ret |-> -ENOMEM, info |-> ZeroInfo,
          reg |-> reg, probes |-> <<>>]
    ELSE AfterChecks(BeforeRegister(obj, idx, fsys, ovf), reg, addr)

\* malloc(sizeof(struct docker_info)): NULL, or the lowest free address.
Malloc(h) ==
    {NULL} \cup
    (IF Addrs \ DOMAIN h = {} THEN {}
     ELSE {CHOOSE a \in Addrs \ DOMAIN h :
              \A b \in Addrs \ DOMAIN h : a <= b})

\* What the sprintf of the redirect can do in a call on obj.
OverflowOutcomes(obj, fsys) ==
    IF /\ GlobalRequired(obj, ZeroInfo).ret = 0
       /\ Overflows(GlobalRequired(obj, ZeroInfo).info, fsys)
    THEN {"abort", "spill"} ELSE {"fits"}

\* ------------------------------------------------------- configurations
Tool == <<"t", "r">>
OptTool == <<"/", "o", "/", "t", "r">>
NoTool == <<"z", "z">>
\* The shortest name whose redirect no longer fits the member.
LongTool == [i \in 1..(PathSize - Len(UsrBin)) |-> "z"]
TraceFile == <<"/", "d", "/", "a">>
NoTraceFile == <<"/", "d", "/", "x">>
SeqRead == global_synth_type[4]
RandMixed == global_synth_type[3]
BadSched == <<"x", "x">>
T0 == <<"t", "0">>
T1 == <<"t", "1">>
QuotedT0 == <<Quote, "t", "0", Quote>>
\* Two ids that differ only past what the cgroup_id member can hold.
LongIdA == [i \in 1..NameSize |-> IF i = NameSize THEN "a" ELSE "c"]
LongIdB == [i \in 1..NameSize |-> IF i = NameSize THEN "b" ELSE "c"]

Empty == [k \in {} |-> NULL]
Opt(key, values) == {Empty} \cup {key :> v : v \in values}

\* What lstat can find: the tool under /usr/bin/ and under /o/, and either
\* the trace file, or a copy of the tool in the working directory and the
\* long-named tool under /usr/bin/.
MainFs == {UsrBin \o Tool, OptTool, TraceFile}
FileSystems == {MainFs, {UsrBin \o Tool, Tool, OptTool, UsrBin \o LongTool}}

BaseGlobal ==
    [time |-> 60, q_depth |-> 32, nr_thread |-> 4,
     prefix_cgroup_name |-> <<"b", "_">>, scheduler |-> SchedNone,
     device |-> <<"s", "d">>, trace_replay_path |-> Tool]

MandatoryKeys ==
    {"time", "q_depth", "nr_thread", "prefix_cgroup_name", "scheduler",
     "device", "trace_replay_path"}

\* Scheduler, weight, trace_repeat and trace_data_path of the global object
\* vary together; the executable path and a missing mandatory key vary
\* against the base values.
Globals ==
    { w @@ r @@ t @@ [BaseGlobal EXCEPT !.scheduler = sc] :
        sc \in {SchedNone, SchedBfq, BadSched},
        w \in Opt("weight", {7}),
        r \in Opt("trace_repeat", {3}),
        t \in Opt("trace_data_path", {SeqRead}) }
    \cup { [BaseGlobal EXCEPT !.trace_replay_path = tp] :
             tp \in {OptTool, NoTool, LongTool} }
    \cup { [k \in MandatoryKeys \ {m} |-> BaseGlobal[k]] :
             m \in MandatoryKeys }

PlainGlobals ==
    { [BaseGlobal EXCEPT !.trace_replay_path = tp] :
        tp \in {Tool, OptTool, NoTool, LongTool} }

TaskEntries ==
    { c @@ t @@ sc @@ w @@ r :
        c \in Opt("cgroup_id", {T0, QuotedT0}),
        t \in Opt("trace_data_path", {SeqRead, TraceFile, NoTraceFile}),
        sc \in Opt("scheduler", {SchedBfq, BadSched}),
        w \in Opt("weight", {5}),
        r \in Opt("trace_repeat", {2}) }
    \cup { [cgroup_id |-> T0, trace_data_path |-> SeqRead,
            trace_replay_path |-> tp] : tp \in {NoTool, OptTool} }

SiblingEntries ==
    { [cgroup_id |-> c, trace_data_path |-> t] :
        c \in {T0, T1, QuotedT0}, t \in {RandMixed, NoTraceFile} }
    \cup { [cgroup_id |-> c, trace_data_path |-> RandMixed] :
             c \in {LongIdA, LongIdB} }

SiblingArrays == UNION { [1..n -> SiblingEntries] : n \in 2..MaxTasks }

\* One task entry under every global object; several plain entries, or
\* none, under the plain global objects.
SingleSettings ==
    { g @@ ("task_option" :> <<e>>) : g \in Globals, e \in TaskEntries }

PlainSettings ==
    { g @@ ("task_option" :> a) :
        g \in PlainGlobals, a \in SiblingArrays \cup {<<>>} }
    \cup {BaseGlobal}

Indices == 0..MaxTasks

\* ------------------------------------------------------------ sequential
NoCall == [addr |-> NULL, idx |-> 0, probes |-> <<>>]

Init ==
    /\ \/ setting \in SingleSettings /\ fs = MainFs
       \/ setting \in PlainSettings /\ fs \in FileSystems
    /\ heap = Empty
    /\ registry = {}
    /\ returned = {}
    /\ result = NULL
    /\ err = "None"
    /\ ret = 0
    /\ index = 0
    /\ probes = <<>>
    /\ pc = [t \in Threads |-> "idle"]
    /\ tinfo = [t \in Threads |-> NoCall]

\* One call docker_info_init(setting, idx), start to return.
DockerInfoInit ==
    /\ err # "Abort"
    /\ \E idx \in Indices, addr \in Malloc(heap), ovf \in OverflowOutcomes(setting, fs) :
         \E r \in {docker_info_init(setting, idx, addr, ovf, registry, fs)} :
         /\ index' = idx
         /\ err' = r.err
         /\ ret' = r.ret
         /\ probes' = r.probes
         /\ registry' = r.reg
         /\ result' = IF r.err = "None" THEN addr ELSE NULL
         /\ heap' = IF r.err = "None" THEN (addr :> r.info) @@ heap ELSE heap
         /\ returned' = IF r.err = "None" THEN returned \cup {addr}
                        ELSE returned
    /\ UNCHANGED <<setting, fs, pc, tinfo>>

Next == DockerInfoInit

Spec == Init /\ [][Next]_vars

\* ------------------------------------------------------------ concurrent
\* Two threads call docker_info_init on the same configuration.  Nothing in
\* the file locks the table, so the calls interleave between the two
\* hsearch calls of __docker_info_init; each hsearch call is taken as one
\* step, the most orderly schedule an unsynchronised table can have.
ConcSettings ==
    { g @@ ("task_option" :> a) : g \in PlainGlobals, a \in SiblingArrays }

InitConc ==
    /\ setting \in ConcSettings
    /\ fs \in FileSystems
    /\ heap = Empty
    /\ registry = {}
    /\ returned = {}
    /\ result = NULL
    /\ err = "None"
    /\ ret = 0
    /\ index = 0
    /\ probes = <<>>
    /\ pc = [t \in Threads |-> "idle"]
    /\ tinfo = [t \in Threads |-> NoCall]

\* A call that returns NULL through the exception label.
Fails(idx, e, r, ps) ==
    /\ index' = idx
    /\ err' = e
    /\ ret' = r
    /\ probes' = ps
    /\ result' = NULL
    /\ UNCHANGED <<heap, registry, returned, pc, tinfo>>

\* Thread t runs docker_info_init up to and including hsearch(item, FIND).
Find(t) ==
    /\ pc[t] = "idle"
    /\ err # "Abort"
    /\ UNCHANGED <<setting, fs>>
    /\ \E idx \in Indices, addr \in Malloc(heap), ovf \in OverflowOutcomes(setting, fs) :
         IF addr = NULL
         THEN Fails(idx, "AllocationFailure", -ENOMEM, <<>>)
         ELSE
         \E b \in {BeforeRegister(setting, idx, fs, ovf)} :
         IF b.err # "None"
         THEN Fails(idx, b.err, b.ret, b.probes)
         ELSE IF NULL # hsearch_FIND(registry, b.info.cgroup_id)
         THEN Fails(idx, "DuplicateCgroupId", -EINVAL, b.probes)
         ELSE /\ pc' = [pc EXCEPT ![t] = "enter"]
              /\ tinfo' = [tinfo EXCEPT ![t] =
                               [addr |-> addr, idx |-> idx,
                                probes |-> b.probes]]
              /\ heap' = (addr :> b.info) @@ heap
              /\ UNCHANGED <<registry, returned, result, err, ret, index,
                             probes>>

\* Thread t runs hsearch(item, ENTER) and returns its descriptor.
Enter(t) ==
    /\ pc[t] = "enter"
    /\ LET a == tinfo[t].addr IN
         /\ registry' = hsearch_ENTER(registry, heap[a].cgroup_id, a)
         /\ heap' = [heap EXCEPT ![a] = Finish(@)]
         /\ returned' = returned \cup {a}
         /\ result' = a
    /\ err' = "None"
    /\ ret' = 0
    /\ index' = tinfo[t].idx
    /\ probes' = tinfo[t].probes
    /\ pc' = [pc EXCEPT ![t] = "idle"]
    /\ tinfo' = [tinfo EXCEPT ![t] = NoCall]
    /\ UNCHANGED <<setting, fs>>

NextConc == (\E t \in Threads : Find(t)) \/ (\E t \in Threads : Enter(t))

SpecConc == InitConc /\ [][NextConc]_vars

\* ================================================================ claims
\* What the last completed call was given, read off the configuration.
Called == result # NULL \/ err # "None"
HasEntry ==
    /\ "task_option" \in DOMAIN setting
    /\ index < Len(setting["task_option"])
Entry == setting["task_option"][index + 1]
Stored(member, s) == generic_strip_string(snprintf(SizeOf(member), s), Quote)
InSynthTagSet(s) == \E i \in DOMAIN global_synth_type : global_synth_type[i] = s
BeforeTraceCheck ==
    {"AllocationFailure", "MissingField", "ExecutableNotFound",
     "UnsupportedScheduler", "IndexOutOfRange", "MissingWeight", "Abort"}
Ids(addrs) == {heap[a].cgroup_id : a \in addrs}

\* C1: within one run no two returned descriptors share a cgroupId, and a
\* call whose task entry carries the cgroup_id of an already returned
\* descriptor returns no descriptor; if it gets as far as the registration
\* it fails with DuplicateCgroupId.
C1_UniqueCgroupId ==
    [][ /\ \A a, b \in returned' :
             a # b => heap'[a].cgroup_id # heap'[b].cgroup_id
        /\ ( /\ "task_option" \in DOMAIN setting
             /\ index' < Len(setting["task_option"])
             /\ "cgroup_id" \in DOMAIN setting["task_option"][index' + 1]
             /\ Stored("cgroup_id",
                       setting["task_option"][index' + 1]["cgroup_id"])
                    \in Ids(returned) )
           => /\ result' = NULL
              /\ returned' = returned
              /\ err' \in BeforeTraceCheck
                        \cup {"TraceSourceNotFound", "DuplicateCgroupId"}
              /\ err' \notin BeforeTraceCheck \cup {"TraceSourceNotFound"}
                    => err' = "DuplicateCgroupId" ]_vars

C1_Witness ==
    /\ err = "DuplicateCgroupId"
    /\ result = NULL
    /\ Stored("cgroup_id", Entry["cgroup_id"]) \in Ids(returned)

\* C2: two concurrent calls whose task entries carry the same cgroup_id
\* never both find the id absent and both return a descriptor.
C2_AtomicRegister ==
    \A a, b \in returned : a # b => heap[a].cgroup_id # heap[b].cgroup_id

\* C8: every returned descriptor has mqid, semid and shmid at -1 and an
\* empty next link.
C8_SentinelHandles ==
    \A a \in returned :
        /\ heap[a].mqid = -1
        /\ heap[a].semid = -1
        /\ heap[a].shmid = -1
        /\ heap[a].next = NULL

C8_Witness == result # NULL /\ result \in returned /\ heap[result].ppid = Pid

\* The configuration of the last call leaves nothing but the field under
\* test to decide the outcome: every mandatory global key, an executable
\* that resolves and is not overridden, memory for the descriptor, and a
\* task entry with a cgroup_id no returned descriptor has.
GlobalComplete == MandatoryKeys \subseteq DOMAIN setting
GivenTool == Stored("trace_replay_path", setting["trace_replay_path"])
ToolResolves == GivenTool \in fs \/ (UsrBin \o GivenTool) \in fs
EffectiveScheduler ==
    IF "scheduler" \in DOMAIN Entry
    THEN Stored("scheduler", Entry["scheduler"])
    ELSE Stored("scheduler", setting["scheduler"])
FreshId ==
    /\ "cgroup_id" \in DOMAIN Entry
    /\ Stored("cgroup_id", Entry["cgroup_id"])
           \notin Ids(returned \ {result})
OtherwiseValid ==
    /\ Called
    /\ err \notin {"AllocationFailure", "Abort"}
    /\ GlobalComplete
    /\ HasEntry
    /\ ToolResolves
    /\ Len(UsrBin \o GivenTool) < PathSize
    /\ "trace_replay_path" \notin DOMAIN Entry
    /\ Stored("scheduler", setting["scheduler"]) \in
           {SchedNone, SchedKyber, SchedBfq}
    /\ EffectiveScheduler \in {SchedNone, SchedKyber, SchedBfq}
    /\ FreshId

\* C3: with a weight-aware effective scheduler and everything else valid,
\* the call fails with MissingWeight when neither the global object nor the
\* task entry has weight, and succeeds when either has it.
C3_WeightAtEitherTier ==
    ( /\ OtherwiseValid
      /\ EffectiveScheduler = SchedBfq
      /\ "trace_data_path" \in DOMAIN Entry
      /\ InSynthTagSet(Stored("trace_data_path", Entry["trace_data_path"])) )
    => IF "weight" \in DOMAIN setting \/ "weight" \in DOMAIN Entry
       THEN result # NULL
       ELSE result = NULL /\ err = "MissingWeight"

\* C4: when the global object has a valid trace_data_path and the task
\* entry has none, the call succeeds and the descriptor carries the global
\* value.
C4_InheritedTraceDataPath ==
    ( /\ OtherwiseValid
      /\ EffectiveScheduler # SchedBfq
      /\ "trace_data_path" \in DOMAIN setting
      /\ InSynthTagSet(Stored("trace_data_path", setting["trace_data_path"]))
      /\ "trace_data_path" \notin DOMAIN Entry )
    => /\ result # NULL
       /\ heap[result].trace_data_path =
              Stored("trace_data_path", setting["trace_data_path"])

\* C5: the trace_replay_path of every returned descriptor exists, also when
\* the task entry overrides the global one.
C5_ExecutableExists ==
    \A a \in returned : heap[a].trace_replay_path \in fs

\* C6: the trace_repeat of a returned descriptor is the task entry's
\* trace_repeat, else the global object's, else 1.
C6_TraceRepeat ==
    result # NULL =>
        heap[result].trace_repeat =
            IF "trace_repeat" \in DOMAIN Entry THEN Entry["trace_repeat"]
            ELSE IF "trace_repeat" \in DOMAIN setting
                 THEN setting["trace_repeat"]
                 ELSE 1

\* C7: a call that returns NULL leaves the table of cgroup ids and the
\* returned descriptors as they were, and no entry of the table points at a
\* released descriptor; a later call reads only the configuration, the
\* file system, the table and the allocator, all of them unchanged, so it
\* resolves as it would have without the failed call.
C7_FailureLeavesNoTrace ==
    [][ /\ \A e \in registry' :
             e.data \in returned' /\ heap'[e.data].cgroup_id = e.key
        /\ result' = NULL =>
             /\ registry' = registry
             /\ heap' = heap
             /\ returned' = returned
             /\ setting' = setting
             /\ fs' = fs ]_vars

C7_Witness ==
    /\ result = NULL
    /\ err \in {"TraceSourceNotFound", "DuplicateCgroupId"}
    /\ registry # {}

\* C9: a call that reaches the trace source check makes no lstat of a
\* trace_data_path that is one of the six synthetic tags and passes the
\* check; for any other value it fails with TraceSourceNotFound exactly
\* when the path does not exist.
C9_TraceSourceCheck ==
    (Called /\ err \notin BeforeTraceCheck) =>
        LET tdp == Stored("trace_data_path", Entry["trace_data_path"]) IN
        IF InSynthTagSet(tdp)
        THEN err # "TraceSourceNotFound" /\ Len(probes) = 2
        ELSE /\ err = "TraceSourceNotFound" <=> tdp \notin fs
             /\ Len(probes) = 3
             /\ probes[3] = tdp

C9_Witness ==
    /\ result # NULL
    /\ InSynthTagSet(heap[result].trace_data_path)
    /\ Len(probes) = 2

\* C10: a global trace_replay_path that exists is kept as given; one that
\* exists only under /usr/bin/ is rewritten to that form and the call goes
\* on; one that exists at neither place fails the call with
\* ExecutableNotFound and no descriptor; the second lstat is the last one.
C10_ExecutableFallback ==
    (Called /\ err # "AllocationFailure" /\ GlobalComplete) =>
        IF GivenTool \in fs
        THEN /\ err \notin {"ExecutableNotFound", "Abort"}
             /\ Take(probes, 2) = <<GivenTool, GivenTool>>
             /\ (result # NULL /\ "trace_replay_path" \notin DOMAIN Entry)
                  => heap[result].trace_replay_path = GivenTool
        ELSE IF (UsrBin \o GivenTool) \in fs
        THEN /\ err \notin {"ExecutableNotFound", "Abort"}
             /\ Take(probes, 2) = <<GivenTool, UsrBin \o GivenTool>>
             /\ (result # NULL /\ "trace_replay_path" \notin DOMAIN Entry)
                  => heap[result].trace_replay_path = UsrBin \o GivenTool
        ELSE /\ err = "ExecutableNotFound"
             /\ result = NULL
             /\ probes = <<GivenTool, UsrBin \o GivenTool>>

====
